---- MODULE Spec2Model ----
(***************************************************************************)
(* Model of strategy_engine.py (StrategyState.process_bar, to_json,        *)
(* from_json, should_stop_loss) of cskyw/btc_real_trade.                   *)
(*                                                                         *)
(* Python floats are modelled as exact rationals <<num, den>> (den > 0,    *)
(* lowest terms); NaN, which pandas' rolling mean yields where the window  *)
(* is not full, is the value NaN and every comparison with it is FALSE.    *)
(***************************************************************************)
EXTENDS Integers, Sequences, FiniteSets, TLC

VARIABLES
    params,                  \* StrategyState.params (fixed for a run)
    long_entries,            \* StrategyState.long_entries
    short_entries,           \* StrategyState.short_entries
    completed_long_trades,   \* StrategyState.completed_long_trades
    completed_short_trades,  \* StrategyState.completed_short_trades
    pc,                      \* position of the caller: "idle" | "returned" | json phases
    df,                      \* process_bar argument df of the call that returned
    account_value,           \* process_bar argument account_value
    cash,                    \* process_bar argument cash
    actions,                 \* the list process_bar returned
    pre,                     \* the ledger and counters as they were when the call began
    snapshot,                \* the JSON text produced by to_json (as a parsed value)
    restored,                \* the StrategyState built by from_json
    trades,                  \* _infer_tp1_done_from_trades argument trades
    pos_side,                \* _infer_tp1_done_from_trades argument pos_side
    inferred                 \* what _infer_tp1_done_from_trades returned

vars == <<params, long_entries, short_entries, completed_long_trades,
          completed_short_trades, pc, df, account_value, cash, actions, pre,
          snapshot, restored, trades, pos_side, inferred>>

\* the variables of the trade replay
tradeVars == <<trades, pos_side, inferred>>

-----------------------------------------------------------------------------
(* Exact rational arithmetic standing for Python float arithmetic.         *)

RECURSIVE GCD(_, _)
GCD(a, b) == IF b = 0 THEN a ELSE GCD(b, a % b)

Abs(x) == IF x < 0 THEN -x ELSE x

Norm(n, d) ==
    IF d = 0 THEN <<0, 0>>
    ELSE LET s == IF d < 0 THEN -1 ELSE 1
             g == GCD(Abs(n), Abs(d))
         IN  <<(s * n) \div g, (s * d) \div g>>

Q(i) == <<i, 1>>
\* NaN is the one value with denominator 0
NaN == <<0, 0>>
IsNaN(x) == x[2] = 0

RAdd(x, y) == Norm(x[1] * y[2] + y[1] * x[2], x[2] * y[2])
RSub(x, y) == Norm(x[1] * y[2] - y[1] * x[2], x[2] * y[2])
RMul(x, y) == Norm(x[1] * y[1], x[2] * y[2])
RDiv(x, y) == Norm(x[1] * y[2], x[2] * y[1])

\* float comparisons: FALSE as soon as one operand is NaN
FLt(x, y) == ~IsNaN(x) /\ ~IsNaN(y) /\ x[1] * y[2] < y[1] * x[2]
FLe(x, y) == ~IsNaN(x) /\ ~IsNaN(y) /\ x[1] * y[2] <= y[1] * x[2]
FGt(x, y) == FLt(y, x)
FGe(x, y) == FLe(y, x)

Max(a, b) == IF a >= b THEN a ELSE b

-----------------------------------------------------------------------------
(* Parameters, entries and the inputs of process_bar.                      *)

\* the fixed long-context window of process_bar
LongWindow == 120

\* bounds of the model
MaxEntries == 2      \* entries held by the ledger, long and short together
MaxCompleted == 1    \* cap of the two completed-trade counters together

\* StrategyParams() with the defaults of the dataclass
DefaultParams ==
    [ma_fast |-> 10, ma_slow |-> 20, buy_pct |-> <<3, 20>>,
     tp1_pct |-> <<2, 25>>, tp2_pct |-> <<7, 50>>, sl_pct |-> <<9, 50>>,
     tp1_sell_prop |-> <<9, 10>>]

\* the parameter sets a run is started with: the defaults, and a set with a
\* slow window longer than 120 bars, tier-1 closing the whole entry, and
\* TP1_PCT = -0.18, with which tier-1 is due wherever the stop-loss is
ParamChoices ==
    {DefaultParams,
     [DefaultParams EXCEPT !.ma_slow = 121, !.tp1_sell_prop = <<1, 1>>,
                           !.tp1_pct = <<-9, 50>>]}

Entry(price, size, tp1_done) ==
    [price |-> price, size |-> size, tp1_done |-> tp1_done]

\* the sequences of at most n elements of S
RECURSIVE SeqsUpTo(_, _)
SeqsUpTo(S, n) ==
    IF n = 0 THEN {<<>>}
    ELSE SeqsUpTo(S, n - 1) \cup {Append(q, x) : q \in SeqsUpTo(S, n - 1), x \in S}

\* a StrategyState without its params (they never change)
StrategyState(le, se, clt, cst) ==
    [long_entries |-> le, short_entries |-> se,
     completed_long_trades |-> clt, completed_short_trades |-> cst]

\* the columns fetch_ohlcv_df gives a frame
Columns == {"timestamp", "open", "high", "low", "close", "volume"}

\* closes of the last bar and of the bar before it, and of every earlier bar
Closes == {-1, 0, 82, 100, 122}
PrevCloses == {82, 100, 122}
Flats == {100}
Lens == {LongWindow, LongWindow + 1, LongWindow + 2}

\* A frame is a flat run of closes followed by the two last bars.
CloseFrames ==
    [columns : {Columns}, len : Lens, flat : Flats, prev : PrevCloses,
     last : Closes]

Frames ==
    CloseFrames \cup
    [columns : {Columns \ {"close"}}, len : {LongWindow + 1}, flat : Flats,
     prev : {82}, last : {100}]

\* df["close"], 1-based
Close(d) ==
    [i \in 1..d.len |->
        IF i = d.len THEN d.last ELSE IF i = d.len - 1 THEN d.prev ELSE d.flat]

\* the account as fetch_balance reports it: USDT total and USDT free
Balances ==
    {[total |-> 0, free |-> 0], [total |-> 1000, free |-> 100],
     [total |-> 1000, free |-> 150]}

\* get_account_value_and_cash
get_account_value_and_cash(b) ==
    [account_value |-> IF b.total > 0 THEN b.total ELSE b.free, cash |-> b.free]

-----------------------------------------------------------------------------
(* Indicators.                                                             *)

RECURSIVE SumRange(_, _, _)
SumRange(close, lo, hi) ==
    IF lo > hi THEN 0
    ELSE IF lo = hi THEN close[lo]
    ELSE LET mid == (lo + hi) \div 2
         IN  SumRange(close, lo, mid) + SumRange(close, mid + 1, hi)

\* close.rolling(w).mean() at the 1-based position i: NaN until the window is full
rolling_mean(close, w, i) ==
    IF i < w THEN NaN ELSE Norm(SumRange(close, i - w + 1, i), w)

Windows == {p.ma_fast : p \in ParamChoices} \cup {p.ma_slow : p \in ParamChoices}
               \cup {LongWindow}

\* the rolling means of every frame at the two positions process_bar reads
\* (iloc[idx - 1] and iloc[idx]), computed once
RollingMeans ==
    [n \in Lens, f \in Flats, a \in PrevCloses, b \in Closes, w \in Windows |->
        LET d == [columns |-> Columns, len |-> n, flat |-> f, prev |-> a, last |-> b]
        IN  [prev |-> rolling_mean(Close(d), w, d.len - 1),
             last |-> rolling_mean(Close(d), w, d.len)]]

\* RollingMeans as an enumerated function (the comparison enumerates it, once)
MaTable == IF RollingMeans = RollingMeans THEN RollingMeans ELSE RollingMeans

rolling(d, w) == MaTable[d.len, d.flat, d.prev, d.last, w]

-----------------------------------------------------------------------------
(* strategy_engine.py                                                      *)

\* should_stop_loss with the boundary left out: "pnl_pct < -sl_pct"
should_stop_loss_strict(entry_price, current_price, side, sl_pct) ==
    IF FLe(sl_pct, Q(0)) THEN FALSE
    ELSE LET pnl_pct == IF side = "long"
                        THEN RSub(RDiv(current_price, entry_price), Q(1))
                        ELSE RSub(RDiv(entry_price, current_price), Q(1))
         IN  FLt(pnl_pct, RSub(Q(0), sl_pct))

should_stop_loss(entry_price, current_price, side, sl_pct) ==
    IF FLe(sl_pct, Q(0)) THEN FALSE
    ELSE LET pnl_pct == IF side = "long"
                        THEN RSub(RDiv(current_price, entry_price), Q(1))
                        ELSE RSub(RDiv(entry_price, current_price), Q(1))
         IN  FLe(pnl_pct, RSub(Q(0), sl_pct))

\* what a call of process_bar leaves: the state and the returned list
Outcome(self, acts) == [state |-> self, actions |-> acts]

OpenAction(op, side, size, price, notional) ==
    [op |-> op, side |-> side, size |-> size, price |-> price, notional |-> notional]

ExitAction(op, side, size, price) ==
    [op |-> op, side |-> side, size |-> size, price |-> price]

\* list.pop(i), 1-based
Pop(entries, i) ==
    SubSeq(entries, 1, i - 1) \o SubSeq(entries, i + 1, Len(entries))

\* the long signal with "<=" in its two tests of prev_price
long_signal_non_strict(price, prev_price, ma_fast, ma_slow, ma120) ==
    /\ FLe(prev_price, ma_fast.prev)
    /\ FGt(price, ma_fast.last)
    /\ FLe(prev_price, ma_slow.prev)
    /\ FGt(price, ma_slow.last)
    /\ FGt(price, ma120.last)

\* the long signal of the last bar
long_signal(price, prev_price, ma_fast, ma_slow, ma120) ==
    /\ FLt(prev_price, ma_fast.prev)
    /\ FGt(price, ma_fast.last)
    /\ FLt(prev_price, ma_slow.prev)
    /\ FGt(price, ma_slow.last)
    /\ FGt(price, ma120.last)

\* the short signal written with the comparisons of the long one
short_signal_as_long(price, prev_price, ma_fast, ma_slow, ma120) ==
    /\ FLt(prev_price, ma_fast.prev)
    /\ FGt(price, ma_fast.last)
    /\ FLt(prev_price, ma_slow.prev)
    /\ FGt(price, ma_slow.last)
    /\ FGt(price, ma120.last)

\* the short signal of the last bar
short_signal(price, prev_price, ma_fast, ma_slow, ma120) ==
    /\ FGt(prev_price, ma_fast.prev)
    /\ FLt(price, ma_fast.last)
    /\ FGt(prev_price, ma_slow.prev)
    /\ FLt(price, ma_slow.last)
    /\ FLt(price, ma120.last)

RECURSIVE scan_long(_, _, _, _)

\* tp1_long without its "return actions": the loop goes on to the older entries
tp1_long_no_return(self, p, price, i) ==
    LET entry == self.long_entries[i]
        sell_size == RMul(entry.size, p.tp1_sell_prop)
        closed == [self EXCEPT !.long_entries[i] =
                        Entry(entry.price, RSub(entry.size, sell_size), TRUE)]
        rest == scan_long(closed, p, price, i - 1)
    IN  Outcome(rest.state,
                <<ExitAction("tp1_long", "sell", sell_size, price)>> \o rest.actions)

\* tp1_long counting the partial close as a completed trade
tp1_long_counting(self, p, price, i) ==
    LET entry == self.long_entries[i]
        sell_size == RMul(entry.size, p.tp1_sell_prop)
    IN  Outcome([self EXCEPT !.long_entries[i] =
                        Entry(entry.price, RSub(entry.size, sell_size), TRUE),
                     !.completed_long_trades = @ + 1],
                <<ExitAction("tp1_long", "sell", sell_size, price)>>)

\* tp1_long returning the size it leaves instead of the size it sells
tp1_long_reports_rest(self, p, price, i) ==
    LET entry == self.long_entries[i]
        sell_size == RMul(entry.size, p.tp1_sell_prop)
    IN  Outcome([self EXCEPT !.long_entries[i] =
                        Entry(entry.price, RSub(entry.size, sell_size), TRUE)],
                <<ExitAction("tp1_long", "sell", RSub(entry.size, sell_size), price)>>)

\* tp1_long that leaves tp1_done as it was
tp1_long_keeps_flag(self, p, price, i) ==
    LET entry == self.long_entries[i]
        sell_size == RMul(entry.size, p.tp1_sell_prop)
    IN  Outcome([self EXCEPT !.long_entries[i] =
                        Entry(entry.price, RSub(entry.size, sell_size), entry.tp1_done)],
                <<ExitAction("tp1_long", "sell", sell_size, price)>>)

\* tier-1 of the long entry i
tp1_long(self, p, price, i) ==
    LET entry == self.long_entries[i]
        sell_size == RMul(entry.size, p.tp1_sell_prop)
    IN  Outcome([self EXCEPT !.long_entries[i] =
                        Entry(entry.price, RSub(entry.size, sell_size), TRUE)],
                <<ExitAction("tp1_long", "sell", sell_size, price)>>)

\* sl_long counting the stopped entry as a completed trade
sl_long_counting(self, p, price, i) ==
    Outcome([self EXCEPT !.long_entries = Pop(@, i),
                         !.completed_long_trades = @ + 1],
            <<ExitAction("sl_long", "sell", self.long_entries[i].size, price)>>)

\* stop-loss of the long entry i
sl_long(self, p, price, i) ==
    Outcome([self EXCEPT !.long_entries = Pop(@, i)],
            <<ExitAction("sl_long", "sell", self.long_entries[i].size, price)>>)

\* tier-2 of the long entry i
tp2_long(self, p, price, i) ==
    Outcome([self EXCEPT !.long_entries = Pop(@, i),
                         !.completed_long_trades = @ + 1],
            <<ExitAction("tp2_long", "sell", self.long_entries[i].size, price)>>)

\* tp1_short that leaves the stored size as it was
tp1_short_keeps_size(self, p, price, i) ==
    LET entry == self.short_entries[i]
        buy_size == RMul(entry.size, p.tp1_sell_prop)
    IN  Outcome([self EXCEPT !.short_entries[i] = Entry(entry.price, entry.size, TRUE)],
                <<ExitAction("tp1_short", "buy", buy_size, price)>>)

\* tier-1 of the short entry i
tp1_short(self, p, price, i) ==
    LET entry == self.short_entries[i]
        buy_size == RMul(entry.size, p.tp1_sell_prop)
    IN  Outcome([self EXCEPT !.short_entries[i] =
                        Entry(entry.price, RSub(entry.size, buy_size), TRUE)],
                <<ExitAction("tp1_short", "buy", buy_size, price)>>)

\* stop-loss of the short entry i
sl_short(self, p, price, i) ==
    Outcome([self EXCEPT !.short_entries = Pop(@, i)],
            <<ExitAction("sl_short", "buy", self.short_entries[i].size, price)>>)

\* tier-2 of the short entry i
tp2_short(self, p, price, i) ==
    Outcome([self EXCEPT !.short_entries = Pop(@, i),
                         !.completed_short_trades = @ + 1],
            <<ExitAction("tp2_short", "buy", self.short_entries[i].size, price)>>)

\* "for i in range(len(self.short_entries) - 1, -1, -1)", from the 1-based i down
RECURSIVE scan_short(_, _, _, _)
scan_short(self, p, price, i) ==
    IF i < 1 THEN Outcome(self, <<>>)
    ELSE LET entry == self.short_entries[i]
             pnl_pct == RSub(RDiv(entry.price, price), Q(1))
         IN  IF ~entry.tp1_done /\ FGe(pnl_pct, p.tp1_pct)
                 THEN tp1_short(self, p, price, i)
             ELSE IF should_stop_loss(entry.price, price, "short", p.sl_pct)
                 THEN sl_short(self, p, price, i)
             ELSE IF entry.tp1_done /\ FGe(pnl_pct, p.tp2_pct)
                 THEN tp2_short(self, p, price, i)
             ELSE scan_short(self, p, price, i - 1)

\* scan_long testing tier-2 first, and for every entry whatever its tp1_done
scan_long_tp2_first(self, p, price, i) ==
    IF i < 1 THEN scan_short(self, p, price, Len(self.short_entries))
    ELSE LET entry == self.long_entries[i]
             pnl_pct == RSub(RDiv(price, entry.price), Q(1))
         IN  IF FGe(pnl_pct, p.tp2_pct)
                 THEN tp2_long(self, p, price, i)
             ELSE IF ~entry.tp1_done /\ FGe(pnl_pct, p.tp1_pct)
                 THEN tp1_long(self, p, price, i)
             ELSE IF should_stop_loss(entry.price, price, "long", p.sl_pct)
                 THEN sl_long(self, p, price, i)
             ELSE scan_long(self, p, price, i - 1)

\* scan_long looking at the short entries before the long ones
scan_long_shorts_first(self, p, price, i) ==
    LET shorts == scan_short(self, p, price, Len(self.short_entries))
    IN  IF shorts.actions # <<>> \/ i < 1 THEN shorts
        ELSE LET entry == self.long_entries[i]
                 pnl_pct == RSub(RDiv(price, entry.price), Q(1))
             IN  IF ~entry.tp1_done /\ FGe(pnl_pct, p.tp1_pct)
                     THEN tp1_long(self, p, price, i)
                 ELSE IF should_stop_loss(entry.price, price, "long", p.sl_pct)
                     THEN sl_long(self, p, price, i)
                 ELSE IF entry.tp1_done /\ FGe(pnl_pct, p.tp2_pct)
                     THEN tp2_long(self, p, price, i)
                 ELSE scan_long(self, p, price, i - 1)

\* "for i in range(len(self.long_entries) - 1, -1, -1)", from the 1-based i down,
\* followed by the loop over the short entries
scan_long(self, p, price, i) ==
    IF i < 1 THEN scan_short(self, p, price, Len(self.short_entries))
    ELSE LET entry == self.long_entries[i]
             pnl_pct == RSub(RDiv(price, entry.price), Q(1))
         IN  IF ~entry.tp1_done /\ FGe(pnl_pct, p.tp1_pct)
                 THEN tp1_long(self, p, price, i)
             ELSE IF should_stop_loss(entry.price, price, "long", p.sl_pct)
                 THEN sl_long(self, p, price, i)
             ELSE IF entry.tp1_done /\ FGe(pnl_pct, p.tp2_pct)
                 THEN tp2_long(self, p, price, i)
             ELSE scan_long(self, p, price, i - 1)

\* open_long without its "return actions": the exit checks run on the same bar
open_long_no_return(self, p, price, buy_amount) ==
    LET size == RDiv(buy_amount, price)
        opened == [self EXCEPT !.long_entries = Append(@, Entry(price, size, FALSE))]
        rest == scan_long(opened, p, price, Len(opened.long_entries))
    IN  Outcome(rest.state,
                <<OpenAction("open_long", "buy", size, price, buy_amount)>>
                    \o rest.actions)

\* the body of "if cash >= buy_amount"
open_long(self, p, price, buy_amount) ==
    LET size == RDiv(buy_amount, price)
    IN  Outcome([self EXCEPT !.long_entries = Append(@, Entry(price, size, FALSE))],
                <<OpenAction("open_long", "buy", size, price, buy_amount)>>)

\* the body of "if short_signal"
open_short(self, p, price, account_value_) ==
    LET sell_amount == RMul(Q(account_value_), p.buy_pct)
        size == RDiv(sell_amount, price)
    IN  Outcome([self EXCEPT !.short_entries = Append(@, Entry(price, size, FALSE))],
                <<OpenAction("open_short", "sell", size, price, sell_amount)>>)

\* the history check one bar too lenient: "len(close) < max_period"
enough_history_off_by_one(p, n) ==
    ~(n < Max(Max(p.ma_fast, p.ma_slow), LongWindow))

\* "if len(close) < max_period + 1: return []" lets the call go on
enough_history(p, n) ==
    ~(n < Max(Max(p.ma_fast, p.ma_slow), LongWindow) + 1)

\* no cash gate on the long side
cash_covers_always(cash_, buy_amount) == TRUE

\* "if cash >= buy_amount"
cash_covers(cash_, buy_amount) == FGe(Q(cash_), buy_amount)

\* the price check letting a close of 0 through: "if price < 0"
bad_price_zero_passes(price) == FLt(price, Q(0))

\* "if price <= 0: return []"
bad_price(price) == FLe(price, Q(0))

\* StrategyState.process_bar(df, account_value, cash) on the state self with
\* the params p
process_bar(self, p, d, account_value_, cash_) ==
    IF "close" \notin d.columns THEN Outcome(self, <<>>)
    ELSE IF ~enough_history(p, d.len) THEN Outcome(self, <<>>)
    ELSE
      LET close == Close(d)
          ma_fast == rolling(d, p.ma_fast)
          ma_slow == rolling(d, p.ma_slow)
          ma120 == rolling(d, LongWindow)
          idx == d.len
          price == Q(close[idx])
          prev_price == Q(close[idx - 1])
          buy_amount == RMul(Q(account_value_), p.buy_pct)
      IN  IF bad_price(price) THEN Outcome(self, <<>>)
          ELSE IF /\ long_signal(price, prev_price, ma_fast, ma_slow, ma120)
                  /\ cash_covers(cash_, buy_amount)
              THEN open_long(self, p, price, buy_amount)
          ELSE IF short_signal(price, prev_price, ma_fast, ma_slow, ma120)
              THEN open_short(self, p, price, account_value_)
          ELSE scan_long(self, p, price, Len(self.long_entries))

-----------------------------------------------------------------------------
(* to_json and from_json.  A JSON text is modelled by the value it parses  *)
(* to: an object is a function on its keys, an array a sequence, a number  *)
(* and a boolean are tokens.                                               *)

\* json.dumps and json.loads of a number and of a bool
dumps_number(x) == [json |-> "number", text |-> x]
dumps_bool(b) == [json |-> "literal", text |-> IF b THEN "true" ELSE "false"]
loads_scalar(t) == IF t.json = "literal" THEN t.text = "true" ELSE t.text

\* dict.get(key, default)
Get(obj, key, default) == IF key \in DOMAIN obj THEN obj[key] ELSE default

\* a StrategyState with its params
FullState(p, le, se, clt, cst) ==
    [params |-> p, long_entries |-> le, short_entries |-> se,
     completed_long_trades |-> clt, completed_short_trades |-> cst]

\* asdict(e) of an Entry, dumped
entry_to_json(e) ==
    [price |-> dumps_number(e.price), size |-> dumps_number(e.size),
     tp1_done |-> dumps_bool(e.tp1_done)]

\* StrategyState.to_json
to_json(s) ==
    [params |-> [k \in DOMAIN s.params |-> dumps_number(s.params[k])],
     long_entries |-> [i \in 1..Len(s.long_entries) |-> entry_to_json(s.long_entries[i])],
     short_entries |-> [i \in 1..Len(s.short_entries) |-> entry_to_json(s.short_entries[i])],
     completed_long_trades |-> dumps_number(s.completed_long_trades),
     completed_short_trades |-> dumps_number(s.completed_short_trades)]

\* what a constructor call with a missing or an unknown keyword raises
TypeError == [error |-> "TypeError"]
IsError(v) == DOMAIN v = {"error"}

\* Entry(**e) that never reads tp1_done
entry_from_json_no_flag(e) ==
    IF ~({"price", "size"} \subseteq DOMAIN e) \/ ~(DOMAIN e \subseteq {"price", "size", "tp1_done"})
    THEN TypeError
    ELSE Entry(loads_scalar(e.price), loads_scalar(e.size), FALSE)

\* Entry(**e): price and size are required, tp1_done defaults to False
entry_from_json(e) ==
    IF ~({"price", "size"} \subseteq DOMAIN e) \/ ~(DOMAIN e \subseteq {"price", "size", "tp1_done"})
    THEN TypeError
    ELSE Entry(loads_scalar(e.price), loads_scalar(e.size),
               IF "tp1_done" \in DOMAIN e THEN loads_scalar(e.tp1_done) ELSE FALSE)

\* StrategyParams(**raw): every field has a default
params_from_json(raw) ==
    IF ~(DOMAIN raw \subseteq DOMAIN DefaultParams) THEN TypeError
    ELSE [k \in DOMAIN DefaultParams |->
             IF k \in DOMAIN raw THEN loads_scalar(raw[k]) ELSE DefaultParams[k]]

\* StrategyState.from_json
from_json(raw) ==
    LET p == params_from_json(Get(raw, "params", <<>>))
        rl == Get(raw, "long_entries", <<>>)
        rs == Get(raw, "short_entries", <<>>)
        le == [i \in 1..Len(rl) |-> entry_from_json(rl[i])]
        se == [i \in 1..Len(rs) |-> entry_from_json(rs[i])]
        clt == IF "completed_long_trades" \in DOMAIN raw
               THEN loads_scalar(raw.completed_long_trades) ELSE 0
        cst == IF "completed_short_trades" \in DOMAIN raw
               THEN loads_scalar(raw.completed_short_trades) ELSE 0
    IN  IF \/ IsError(p)
           \/ \E i \in 1..Len(rl) : IsError(le[i])
           \/ \E i \in 1..Len(rs) : IsError(se[i])
        THEN TypeError
        ELSE FullState(p, le, se, clt, cst)

-----------------------------------------------------------------------------
(* The run: a caller that calls process_bar bar after bar.                 *)

Self == StrategyState(long_entries, short_entries,
                      completed_long_trades, completed_short_trades)

EmptyState == StrategyState(<<>>, <<>>, 0, 0)

\* the values of the call's variables while no call has returned
NoFrame == [columns |-> {}, len |-> 0, flat |-> 0, prev |-> 0, last |-> 0]

Init ==
    /\ params \in ParamChoices
    /\ long_entries = <<>>
    /\ short_entries = <<>>
    /\ completed_long_trades = 0
    /\ completed_short_trades = 0
    /\ pc = "idle"
    /\ df = NoFrame
    /\ account_value = 0
    /\ cash = 0
    /\ actions = <<>>
    /\ pre = EmptyState
    /\ snapshot = <<>>
    /\ restored = <<>>
    /\ trades = <<>>
    /\ pos_side = "long"
    /\ inferred = FALSE

\* one call of process_bar, up to its return
ProcessBar(d, av, c) ==
    /\ pc = "idle"
    /\ \E out \in {process_bar(Self, params, d, av, c)} :
           /\ Len(out.state.long_entries) + Len(out.state.short_entries) <= MaxEntries
           /\ out.state.completed_long_trades + out.state.completed_short_trades
                  <= MaxCompleted
           /\ long_entries' = out.state.long_entries
           /\ short_entries' = out.state.short_entries
           /\ completed_long_trades' = out.state.completed_long_trades
           /\ completed_short_trades' = out.state.completed_short_trades
           /\ actions' = out.actions
    /\ pre' = Self
    /\ df' = d
    /\ account_value' = av
    /\ cash' = c
    /\ pc' = "returned"
    /\ UNCHANGED <<params, snapshot, restored>>
    /\ UNCHANGED tradeVars

\* the caller is done with the returned list and the call's arguments
Return ==
    /\ pc = "returned"
    /\ pc' = "idle"
    /\ df' = NoFrame
    /\ account_value' = 0
    /\ cash' = 0
    /\ actions' = <<>>
    /\ pre' = EmptyState
    /\ UNCHANGED <<params, long_entries, short_entries, completed_long_trades,
                   completed_short_trades, snapshot, restored>>
    /\ UNCHANGED tradeVars

Next ==
    \/ \E d \in Frames, b \in Balances :
          LET a == get_account_value_and_cash(b)
          IN  ProcessBar(d, a.account_value, a.cash)
    \/ Return

Spec == Init /\ [][Next]_vars

-----------------------------------------------------------------------------
(* Properties of one call.  In a state with pc = "returned", pre is the    *)
(* state the call began in, df, account_value and cash are its arguments,  *)
(* actions is what it returned and the state variables are what it left.   *)

Called == pc = "returned"

\* the sequence s without its element i
Without(s, i) == [k \in 1..(Len(s) - 1) |-> IF k < i THEN s[k] ELSE s[k + 1]]

Appended(old, new) ==
    Len(new) = Len(old) + 1 /\ \A k \in 1..Len(old) : new[k] = old[k]

ChangedOne(old, new) ==
    /\ Len(new) = Len(old)
    /\ \E i \in 1..Len(old) : \A k \in 1..Len(old) : k # i => new[k] = old[k]

RemovedOne(old, new) ==
    Len(new) = Len(old) - 1 /\ \E i \in 1..Len(old) : new = Without(old, i)

AtMostOneEntryTouched(old, new) ==
    new = old \/ Appended(old, new) \/ ChangedOne(old, new) \/ RemovedOne(old, new)

Returned(op) == Len(actions) = 1 /\ actions[1].op = op

\* C1: every call returns zero or one action and adds, changes or removes at
\* most one entry of the ledger, long and short lists together.
C1_OneActionOneEntry ==
    Called =>
        /\ Len(actions) <= 1
        /\ \/ /\ short_entries = pre.short_entries
              /\ AtMostOneEntryTouched(pre.long_entries, long_entries)
           \/ /\ long_entries = pre.long_entries
              /\ AtMostOneEntryTouched(pre.short_entries, short_entries)

\* a call that began with two long entries both due for tier-1, returned one
\* tier-1 action and left the older entry as it was
C1_Witness ==
    /\ Called
    /\ Len(pre.long_entries) = 2
    /\ \A k \in 1..2 : ~pre.long_entries[k].tp1_done /\ pre.long_entries[k].price = Q(100)
    /\ df.last = 122
    /\ Returned("tp1_long")
    /\ ~long_entries[1].tp1_done

\* C2: a tier-2 action removes its entry and adds 1 to the counter of its
\* side only; a stop-loss action removes its entry and changes no counter.
C2_Tp2CountsSlDoesNot ==
    Called =>
        /\ Returned("tp2_long") =>
              /\ \E i \in 1..Len(pre.long_entries) :
                    /\ long_entries = Without(pre.long_entries, i)
                    /\ pre.long_entries[i].size = actions[1].size
              /\ short_entries = pre.short_entries
              /\ completed_long_trades = pre.completed_long_trades + 1
              /\ completed_short_trades = pre.completed_short_trades
        /\ Returned("tp2_short") =>
              /\ \E i \in 1..Len(pre.short_entries) :
                    /\ short_entries = Without(pre.short_entries, i)
                    /\ pre.short_entries[i].size = actions[1].size
              /\ long_entries = pre.long_entries
              /\ completed_short_trades = pre.completed_short_trades + 1
              /\ completed_long_trades = pre.completed_long_trades
        /\ Returned("sl_long") =>
              /\ \E i \in 1..Len(pre.long_entries) :
                    /\ long_entries = Without(pre.long_entries, i)
                    /\ pre.long_entries[i].size = actions[1].size
              /\ short_entries = pre.short_entries
              /\ completed_long_trades = pre.completed_long_trades
              /\ completed_short_trades = pre.completed_short_trades
        /\ Returned("sl_short") =>
              /\ \E i \in 1..Len(pre.short_entries) :
                    /\ short_entries = Without(pre.short_entries, i)
                    /\ pre.short_entries[i].size = actions[1].size
              /\ long_entries = pre.long_entries
              /\ completed_long_trades = pre.completed_long_trades
              /\ completed_short_trades = pre.completed_short_trades

\* a stop-loss of a long entry that had passed tier-1, in a ledger that also
\* holds a short entry
C2_Witness ==
    /\ Called
    /\ Returned("sl_long")
    /\ Len(pre.long_entries) = 1
    /\ pre.long_entries[1].tp1_done
    /\ Len(short_entries) = 1
    /\ long_entries = <<>>

\* C3 as stated: each counter never decreases and grows by exactly 1 in every
\* call that removes an entry of its side (tier-2 or stop-loss), and in no
\* other call.
C3_CountsEveryRemoval ==
    Called =>
        /\ completed_long_trades - pre.completed_long_trades =
              (IF Len(long_entries) < Len(pre.long_entries) THEN 1 ELSE 0)
        /\ completed_short_trades - pre.completed_short_trades =
              (IF Len(short_entries) < Len(pre.short_entries) THEN 1 ELSE 0)

\* C3 amended: each counter never decreases and grows by exactly 1 in every
\* call that returns the tier-2 action of its side, and in no other call
\* (not on a stop-loss, not on tier-1, not on an open, not on an empty result).
C3_CountsTier2Only ==
    Called =>
        /\ completed_long_trades - pre.completed_long_trades =
              (IF Returned("tp2_long") THEN 1 ELSE 0)
        /\ completed_short_trades - pre.completed_short_trades =
              (IF Returned("tp2_short") THEN 1 ELSE 0)
        /\ Returned("tp2_long") => Len(long_entries) = Len(pre.long_entries) - 1
        /\ Returned("tp2_short") => Len(short_entries) = Len(pre.short_entries) - 1

\* a stop-loss that removed a short entry after a tier-2 close had been counted
C3_Witness ==
    /\ Called
    /\ Returned("sl_short")
    /\ Len(short_entries) < Len(pre.short_entries)
    /\ completed_long_trades + completed_short_trades = 1
    /\ completed_short_trades = pre.completed_short_trades

\* C4: a tier-1 action leaves its entry in the ledger with size = size before
\* * (1 - tp1_sell_prop) and tp1_done set, emits size before * tp1_sell_prop,
\* is emitted only for an entry whose tp1_done was false, and an entry whose
\* tp1_done is set keeps it set in every call that does not remove the entry.
Tier1Applied(old, new, i) ==
    /\ ~old[i].tp1_done
    /\ Len(new) = Len(old)
    /\ \A k \in 1..Len(old) : k # i => new[k] = old[k]
    /\ new[i].price = old[i].price
    /\ new[i].size = RMul(old[i].size, RSub(Q(1), params.tp1_sell_prop))
    /\ new[i].tp1_done
    /\ actions[1].size = RMul(old[i].size, params.tp1_sell_prop)

Tp1DoneKept(old, new) ==
    \A i \in 1..Len(old) :
        old[i].tp1_done =>
            IF Len(new) < Len(old) THEN RemovedOne(old, new)
            ELSE new[i].tp1_done /\ new[i].price = old[i].price

C4_Tier1Partial ==
    Called =>
        /\ Returned("tp1_long") =>
              \E i \in 1..Len(pre.long_entries) :
                  Tier1Applied(pre.long_entries, long_entries, i)
        /\ Returned("tp1_short") =>
              \E i \in 1..Len(pre.short_entries) :
                  Tier1Applied(pre.short_entries, short_entries, i)
        /\ Tp1DoneKept(pre.long_entries, long_entries)
        /\ Tp1DoneKept(pre.short_entries, short_entries)

\* tier-1 of the newer of two short entries, the older one having passed
\* tier-1 in an earlier call and still holding a positive size
C4_Witness ==
    /\ Called
    /\ Returned("tp1_short")
    /\ Len(pre.short_entries) = 2
    /\ pre.short_entries[1].tp1_done
    /\ ~pre.short_entries[2].tp1_done
    /\ short_entries[1].tp1_done
    /\ short_entries[2].tp1_done
    /\ FGt(short_entries[2].size, Q(0))
    /\ FLt(short_entries[2].size, pre.short_entries[2].size)

\* C5 as stated: no entry of the ledger has size <= 0.
C5_NoEmptyEntry ==
    /\ \A k \in 1..Len(long_entries) : FGt(long_entries[k].size, Q(0))
    /\ \A k \in 1..Len(short_entries) : FGt(short_entries[k].size, Q(0))

\* max(ma_fast, ma_slow, 120) + 1, the least length process_bar works on
MinLength ==
    LET m == IF params.ma_fast >= params.ma_slow THEN params.ma_fast ELSE params.ma_slow
    IN  (IF m >= 120 THEN m ELSE 120) + 1

Unchanged == Self = pre

\* C6: on a series shorter than max(ma_fast, ma_slow, 120) + 1 the call
\* returns an empty list and leaves both entry lists and both counters as
\* they were, whatever the last bars and the ledger.
C6_ShortHistoryNoAction ==
    (Called /\ df.len < MinLength) => (actions = <<>> /\ Unchanged)

\* a series one bar short of the 122 that ma_slow = 121 asks for, ending in a
\* bearish crossover shape at a close that would stop the long entry held
C6_Witness ==
    /\ Called
    /\ "close" \in df.columns
    /\ params.ma_slow = 121
    /\ df.len = 121
    /\ df.prev = 122 /\ df.last = 100
    /\ Len(pre.long_entries) = 1
    /\ pre.long_entries[1].price = Q(122)
    /\ actions = <<>>

\* C8 as stated: every action a call returns has size > 0.
C8_PositiveActionSize ==
    Called => \A k \in 1..Len(actions) : FGt(actions[k].size, Q(0))

\* sums of the closes of the windows ending at the last bar and at the bar
\* before it, for every frame and window
WindowSums ==
    [n \in Lens, f \in Flats, a \in PrevCloses, b \in Closes, w \in Windows |->
        LET d == [columns |-> Columns, len |-> n, flat |-> f, prev |-> a, last |-> b]
        IN  IF n <= w THEN [prev |-> 0, last |-> 0]   \* shorter than MinLength
            ELSE [prev |-> SumRange(Close(d), n - w, n - 1),
                  last |-> SumRange(Close(d), n - w + 1, n)]]

\* WindowSums as an enumerated function (the comparison enumerates it, once)
SumTable == IF WindowSums = WindowSums THEN WindowSums ELSE WindowSums

WindowSum(d, w) == SumTable[d.len, d.flat, d.prev, d.last, w]

\* the call got past the history and price checks
ValidBar == Called /\ "close" \in df.columns /\ df.len >= MinLength /\ df.last > 0

\* the bullish crossover of section 4.2 on the frame of the call: a close is
\* compared with a mean m = sum / w as close * w against sum
Bullish ==
    /\ df.prev * params.ma_fast < WindowSum(df, params.ma_fast).prev
    /\ df.last * params.ma_fast > WindowSum(df, params.ma_fast).last
    /\ df.prev * params.ma_slow < WindowSum(df, params.ma_slow).prev
    /\ df.last * params.ma_slow > WindowSum(df, params.ma_slow).last
    /\ df.last * 120 > WindowSum(df, 120).last

\* the bearish crossover: the five inequalities reversed
Bearish ==
    /\ df.prev * params.ma_fast > WindowSum(df, params.ma_fast).prev
    /\ df.last * params.ma_fast < WindowSum(df, params.ma_fast).last
    /\ df.prev * params.ma_slow > WindowSum(df, params.ma_slow).prev
    /\ df.last * params.ma_slow < WindowSum(df, params.ma_slow).last
    /\ df.last * 120 < WindowSum(df, 120).last

\* equity * buy_pct, and the size it buys at the close of the call
Amount == RMul(Q(account_value), params.buy_pct)
OpenSize == RDiv(Amount, Q(df.last))
CashCovers == FGe(Q(cash), Amount)

\* C9: on a bullish bar with cash >= equity * buy_pct the call appends one
\* long entry (close, equity * buy_pct / close, tp1_done false), returns
\* exactly the open_long action of that size, price and notional, and leaves
\* every older entry and both counters as they were.
C9_OpenLongOnly ==
    (ValidBar /\ Bullish /\ CashCovers) =>
        /\ long_entries =
              Append(pre.long_entries,
                     [price |-> Q(df.last), size |-> OpenSize, tp1_done |-> FALSE])
        /\ short_entries = pre.short_entries
        /\ completed_long_trades = pre.completed_long_trades
        /\ completed_short_trades = pre.completed_short_trades
        /\ Returned("open_long")
        /\ actions[1].size = OpenSize
        /\ actions[1].price = Q(df.last)
        /\ actions[1].notional = Amount

\* a long opened at 122 while the ledger held a long entry due for tier-1
\* at that close
C9_Witness ==
    /\ ValidBar /\ Bullish /\ CashCovers
    /\ df.last = 122
    /\ Len(pre.long_entries) = 1
    /\ pre.long_entries[1].price = Q(100) /\ ~pre.long_entries[1].tp1_done
    /\ Returned("open_long")
    /\ FGt(actions[1].size, Q(0))

\* the exit conditions of section 4.3 for one entry at the close of the call
Pnl(e, side) ==
    IF side = "long" THEN RSub(RDiv(Q(df.last), e.price), Q(1))
    ELSE RSub(RDiv(e.price, Q(df.last)), Q(1))

ExitDue(e, side) ==
    \/ ~e.tp1_done /\ FGe(Pnl(e, side), params.tp1_pct)
    \/ FLe(Pnl(e, side), RSub(Q(0), params.sl_pct))
    \/ e.tp1_done /\ FGe(Pnl(e, side), params.tp2_pct)

SomeExitDue ==
    \/ \E k \in 1..Len(pre.long_entries) : ExitDue(pre.long_entries[k], "long")
    \/ \E k \in 1..Len(pre.short_entries) : ExitDue(pre.short_entries[k], "short")

ExitOps == {"tp1_long", "sl_long", "tp2_long", "tp1_short", "sl_short", "tp2_short"}

\* C10: open_long is returned only with cash >= equity * buy_pct; a bullish
\* bar with less cash appends no long entry and ends in the management scan
\* (one exit action if some entry is due, else nothing); every bearish bar
\* with enough history and a positive close opens a short, whatever the cash.
C10_CashGateLongOnly ==
    ValidBar =>
        /\ (\E k \in 1..Len(actions) : actions[k].op = "open_long") => CashCovers
        /\ (Bullish /\ ~CashCovers) =>
              /\ Len(long_entries) <= Len(pre.long_entries)
              /\ Len(short_entries) <= Len(pre.short_entries)
              /\ IF SomeExitDue
                 THEN Len(actions) = 1 /\ actions[1].op \in ExitOps
                 ELSE actions = <<>> /\ Unchanged
        /\ Bearish =>
              /\ Returned("open_short")
              /\ actions[1].size = OpenSize
              /\ short_entries =
                    Append(pre.short_entries,
                           [price |-> Q(df.last), size |-> OpenSize, tp1_done |-> FALSE])
              /\ long_entries = pre.long_entries

\* a bullish bar with cash 100 < 1000 * buy_pct on which the scan went
\* through the long entries and stopped the short entry
C10_Witness ==
    /\ ValidBar /\ Bullish /\ ~CashCovers
    /\ Len(pre.long_entries) = 1
    /\ Returned("sl_short")
    /\ long_entries = pre.long_entries

\* an entry of new that has tp1_done set is an entry of old that had it set,
\* or the entry the tier-1 action op of this call was emitted for
FlagFromTier1(old, new, op) ==
    \A k \in 1..Len(new) :
        new[k].tp1_done =>
            \/ \E j \in 1..Len(old) : old[j] = new[k]
            \/ /\ Returned(op)
               /\ k <= Len(old)
               /\ ~old[k].tp1_done
               /\ new[k].price = old[k].price

\* C11: in a run that starts from an empty ledger, a tier-2 action is emitted
\* only for an entry whose tp1_done was set when the call began, an open
\* appends its entry with tp1_done false, and tp1_done is set on an entry only
\* by the call that emits the tier-1 action for it; so tier-2 of an entry
\* comes strictly after the call that emitted its tier-1.
C11_Tp2AfterTp1 ==
    Called =>
        /\ Returned("tp2_long") =>
              \E i \in 1..Len(pre.long_entries) :
                  /\ pre.long_entries[i].tp1_done
                  /\ long_entries = Without(pre.long_entries, i)
        /\ Returned("tp2_short") =>
              \E i \in 1..Len(pre.short_entries) :
                  /\ pre.short_entries[i].tp1_done
                  /\ short_entries = Without(pre.short_entries, i)
        /\ Returned("open_long") => ~long_entries[Len(long_entries)].tp1_done
        /\ Returned("open_short") => ~short_entries[Len(short_entries)].tp1_done
        /\ FlagFromTier1(pre.long_entries, long_entries, "tp1_long")
        /\ FlagFromTier1(pre.short_entries, short_entries, "tp1_short")

\* a tier-2 close of a long entry opened at 100, at the close 122 that is
\* past both profit thresholds, the entry having passed tier-1 before; the
\* ledger also holds a newer long entry that has not
C11_Witness ==
    /\ Called
    /\ Returned("tp2_long")
    /\ df.last = 122
    /\ Len(pre.long_entries) = 2
    /\ pre.long_entries[1].price = Q(100) /\ pre.long_entries[1].tp1_done
    /\ ~pre.long_entries[2].tp1_done
    /\ long_entries = <<pre.long_entries[2]>>

\* the first condition of section 4.3 that holds for the entry e, in the order
\* tier-1, stop-loss, tier-2
DueOp(e, side) ==
    IF ~e.tp1_done /\ FGe(Pnl(e, side), params.tp1_pct) THEN "tp1"
    ELSE IF FLe(Pnl(e, side), RSub(Q(0), params.sl_pct)) THEN "sl"
    ELSE "tp2"

\* the most recently appended entry of old that is due
Newest(old, side) ==
    CHOOSE i \in 1..Len(old) :
        /\ ExitDue(old[i], side)
        /\ \A k \in (i + 1)..Len(old) : ~ExitDue(old[k], side)

\* the call returned the action of the newest due entry of old and touched
\* no other entry of that list
HitNewest(old, new, side) ==
    LET i == Newest(old, side)
        op == DueOp(old[i], side)
    IN  /\ Len(actions) = 1
        /\ actions[1].op = op \o "_" \o side
        /\ IF op = "tp1"
           THEN /\ Len(new) = Len(old)
                /\ \A k \in 1..Len(old) : k # i => new[k] = old[k]
                /\ new[i].tp1_done
           ELSE new = Without(old, i)

OpenOps == {"open_long", "open_short"}

\* C12: a call that opens no entry returns the first hit of the scan: the
\* newest due long entry if a long entry is due, else the newest due short
\* entry, with the first of tier-1, stop-loss, tier-2 that holds for it; every
\* other entry is left as it was, and nothing is returned when no entry is due.
C12_FirstHit ==
    /\ (Called /\ \E k \in 1..Len(actions) : actions[k].op \in ExitOps) => ValidBar
    /\ (ValidBar /\ \A k \in 1..Len(actions) : actions[k].op \notin OpenOps) =>
          IF \E k \in 1..Len(pre.long_entries) : ExitDue(pre.long_entries[k], "long")
          THEN /\ HitNewest(pre.long_entries, long_entries, "long")
               /\ short_entries = pre.short_entries
          ELSE IF \E k \in 1..Len(pre.short_entries) :
                      ExitDue(pre.short_entries[k], "short")
          THEN /\ HitNewest(pre.short_entries, short_entries, "short")
               /\ long_entries = pre.long_entries
          ELSE actions = <<>> /\ Unchanged

\* at the close 122 a long entry opened at 100 is due for tier-1 and a short
\* entry opened at 100 is due for its stop-loss: the long one is acted on
C12_Witness ==
    /\ ValidBar
    /\ df.last = 122
    /\ Len(pre.long_entries) = 1 /\ Len(pre.short_entries) = 1
    /\ ExitDue(pre.long_entries[1], "long")
    /\ ExitDue(pre.short_entries[1], "short")
    /\ Returned("tp1_long")
    /\ short_entries = pre.short_entries

\* one of the five comparisons of section 4.2 is between equal values
TouchesAverage ==
    \/ df.prev * params.ma_fast = WindowSum(df, params.ma_fast).prev
    \/ df.last * params.ma_fast = WindowSum(df, params.ma_fast).last
    \/ df.prev * params.ma_slow = WindowSum(df, params.ma_slow).prev
    \/ df.last * params.ma_slow = WindowSum(df, params.ma_slow).last
    \/ df.last * 120 = WindowSum(df, 120).last

NothingAppended ==
    /\ Len(long_entries) <= Len(pre.long_entries)
    /\ Len(short_entries) <= Len(pre.short_entries)
    /\ \A k \in 1..Len(actions) : actions[k].op \notin OpenOps

\* C13: open_long is returned only on a bar where the five strict bullish
\* inequalities hold and open_short only where the five reversed ones hold,
\* the averages being the means of the last ma_fast, ma_slow and 120 closes;
\* a bar where a close equals a compared average, or where neither crossover
\* holds, appends no entry.
C13_StrictCrossover ==
    Called =>
        /\ (\E k \in 1..Len(actions) : actions[k].op = "open_long") =>
              ValidBar /\ Bullish
        /\ (\E k \in 1..Len(actions) : actions[k].op = "open_short") =>
              ValidBar /\ Bearish
        /\ Len(long_entries) > Len(pre.long_entries) => Returned("open_long")
        /\ Len(short_entries) > Len(pre.short_entries) => Returned("open_short")
        /\ (ValidBar /\ TouchesAverage) => NothingAppended
        /\ (ValidBar /\ ~Bullish /\ ~Bearish) => NothingAppended

\* the bar before the last closes at 100, exactly the fast and the slow
\* average there, and the last bar closes at 122 above all three averages,
\* with cash for a long: nothing is opened and the long entry held since 100
\* gets its tier-1
C13_Witness ==
    /\ ValidBar
    /\ df.prev = 100 /\ df.last = 122
    /\ df.prev * params.ma_fast = WindowSum(df, params.ma_fast).prev
    /\ df.last * params.ma_fast > WindowSum(df, params.ma_fast).last
    /\ df.last * params.ma_slow > WindowSum(df, params.ma_slow).last
    /\ df.last * 120 > WindowSum(df, 120).last
    /\ CashCovers /\ account_value > 0
    /\ Returned("tp1_long")
    /\ Len(long_entries) = Len(pre.long_entries)

\* C14: a call whose last close is <= 0 returns an empty list and leaves both
\* entry lists and both counters as they were, whatever the crossover shape
\* of the series and whatever entries are held.
C14_BadPriceNoAction ==
    (Called /\ df.last <= 0) => (actions = <<>> /\ Unchanged)

\* a series long enough that falls from 122 to a close of 0, the bearish
\* shape, while the ledger holds a long entry (its stop-loss condition holds
\* at 0) and a short entry
C14_Witness ==
    /\ Called
    /\ "close" \in df.columns /\ df.len >= MinLength
    /\ df.prev = 122 /\ df.last = 0
    /\ Bearish
    /\ Len(pre.long_entries) = 1 /\ Len(pre.short_entries) = 1
    /\ ExitDue(pre.long_entries[1], "long")
    /\ actions = <<>>

\* pnlPct <= -sl_pct for the entry e at the close of the call, in integers:
\* long  close / e.price - 1 <= -sl_pct  iff  close <= e.price * (1 - sl_pct),
\* short e.price / close - 1 <= -sl_pct  iff  e.price <= close * (1 - sl_pct)
StopLine(e, side) ==
    LET pn == e.price[1]
        pd == e.price[2]
        sn == params.sl_pct[1]
        sd == params.sl_pct[2]
    IN  IF side = "long" THEN df.last * pd * sd <= pn * (sd - sn)
        ELSE pn * sd <= df.last * pd * (sd - sn)

Tier1Due(e, side) == ~e.tp1_done /\ FGe(Pnl(e, side), params.tp1_pct)

\* the stop-loss action of the side was returned exactly when the first due
\* entry of the scan is at or below its stop line and not due for tier-1
StopExactly(old, side, scanned) ==
    Returned("sl_" \o side) <=>
        /\ scanned
        /\ \E k \in 1..Len(old) : ExitDue(old[k], side)
        /\ LET e == old[Newest(old, side)]
           IN  StopLine(e, side) /\ ~Tier1Due(e, side)

\* C16: with a close > 0 and sl_pct > 0 the stop-loss test of an entry holds
\* exactly when pnlPct <= -sl_pct, the boundary included, pnlPct being
\* close / entry price - 1 for a long and entry price / close - 1 for a short;
\* it does not look at tp1_done, and the scan returns the stop-loss action of
\* the entry it stops at exactly when that test holds and tier-1 did not fire.
C16_StopLossBoundary ==
    (ValidBar /\ FGt(params.sl_pct, Q(0))) =>
        /\ \A k \in 1..Len(pre.long_entries) :
              /\ should_stop_loss(pre.long_entries[k].price, Q(df.last), "long",
                                   params.sl_pct)
                    <=> StopLine(pre.long_entries[k], "long")
              /\ StopLine(pre.long_entries[k], "long")
                    <=> FLe(Pnl(pre.long_entries[k], "long"), RSub(Q(0), params.sl_pct))
        /\ \A k \in 1..Len(pre.short_entries) :
              /\ should_stop_loss(pre.short_entries[k].price, Q(df.last), "short",
                                   params.sl_pct)
                    <=> StopLine(pre.short_entries[k], "short")
              /\ StopLine(pre.short_entries[k], "short")
                    <=> FLe(Pnl(pre.short_entries[k], "short"), RSub(Q(0), params.sl_pct))
        /\ (\A k \in 1..Len(actions) : actions[k].op \notin OpenOps) =>
              /\ StopExactly(pre.long_entries, "long", TRUE)
              /\ StopExactly(pre.short_entries, "short",
                             \A k \in 1..Len(pre.long_entries) :
                                 ~ExitDue(pre.long_entries[k], "long"))

\* the close 82 is exactly 18% below the price 100 of a long entry that has
\* passed tier-1: its stop-loss is returned
C16_Witness ==
    /\ ValidBar
    /\ df.last = 82
    /\ Len(pre.long_entries) = 1
    /\ pre.long_entries[1].price = Q(100)
    /\ pre.long_entries[1].tp1_done
    /\ Pnl(pre.long_entries[1], "long") = RSub(Q(0), params.sl_pct)
    /\ Returned("sl_long")

\* with tp1_pct = -0.18 the same close finds an entry that has not passed
\* tier-1 due for both: tier-1 is returned and the stop-loss is not
Tier1BeforeStop ==
    /\ ValidBar
    /\ df.last = 82
    /\ Len(pre.long_entries) = 1
    /\ StopLine(pre.long_entries[1], "long")
    /\ Tier1Due(pre.long_entries[1], "long")
    /\ Returned("tp1_long")

\* the series of the call has the length process_bar asks for
LongEnough == Called /\ "close" \in df.columns /\ df.len >= MinLength

\* C17: no bar is bullish and bearish at once; a call on a bullish bar returns
\* no open_short, also when its long open was skipped for lack of cash; no
\* call opens on both sides.
C17_OneSidePerBar ==
    /\ LongEnough => ~(Bullish /\ Bearish)
    /\ (ValidBar /\ Bullish) =>
          /\ \A k \in 1..Len(actions) : actions[k].op # "open_short"
          /\ Len(short_entries) <= Len(pre.short_entries)
    /\ (ValidBar /\ Bearish) =>
          /\ \A k \in 1..Len(actions) : actions[k].op # "open_long"
          /\ Len(long_entries) <= Len(pre.long_entries)
    /\ Called =>
          /\ Cardinality({k \in 1..Len(actions) : actions[k].op \in OpenOps}) <= 1
          /\ ~(/\ Len(long_entries) > Len(pre.long_entries)
               /\ Len(short_entries) > Len(pre.short_entries))

\* a bullish bar with equity 1000 and cash 100, too little for a long: the
\* call opens nothing and leaves the short entry held as it was
C17_Witness ==
    /\ ValidBar /\ Bullish /\ ~CashCovers
    /\ account_value = 1000 /\ cash = 100
    /\ Len(pre.short_entries) = 1 /\ pre.long_entries = <<>>
    /\ actions = <<>>
    /\ Unchanged

\* the sum of the sizes of a list of entries
RECURSIVE SumSizes(_)
SumSizes(entries) ==
    IF entries = <<>> THEN Q(0)
    ELSE RAdd(SumSizes(SubSeq(entries, 1, Len(entries) - 1)),
              entries[Len(entries)].size)

\* the sizes of new add up to those of old plus the size of the open action
\* of the side, or minus the size of its tier-1, stop-loss or tier-2 action
Accounted(old, new, side) ==
    SumSizes(new) =
        IF Returned("open_" \o side)
            THEN RAdd(SumSizes(old), actions[1].size)
        ELSE IF \/ Returned("tp1_" \o side)
                \/ Returned("sl_" \o side)
                \/ Returned("tp2_" \o side)
            THEN RSub(SumSizes(old), actions[1].size)
        ELSE SumSizes(old)

\* C18: in every call the sizes held on a side after the call add up to the
\* sizes held before it plus the size of the returned open action of that
\* side, or minus the size of the returned tier-1, stop-loss or tier-2 action
\* of that side, and to the same sum when the call returns nothing or an
\* action of the other side.
C18_SizesAccounted ==
    Called =>
        /\ Accounted(pre.long_entries, long_entries, "long")
        /\ Accounted(pre.short_entries, short_entries, "short")

\* tier-1 of the newer of two long entries: a part of the newer entry is
\* sold, the sum held stays above 0 and the short side is as it was
C18_Witness ==
    /\ Called
    /\ Returned("tp1_long")
    /\ Len(pre.long_entries) = 2
    /\ FGt(actions[1].size, Q(0))
    /\ FLt(actions[1].size, pre.long_entries[2].size)
    /\ FGt(SumSizes(long_entries), long_entries[1].size)
    /\ FLt(SumSizes(long_entries), SumSizes(pre.long_entries))

-----------------------------------------------------------------------------
(* Calls at a close that stays where it is: the caller hands process_bar   *)
(* the same series again and again, and goes on calling.                   *)

\* the entries a ledger may hold when the close comes to rest
HoldEntries ==
    {Entry(Q(pr), <<3, 2>>, done) : pr \in PrevCloses, done \in BOOLEAN}

\* series whose last two closes are equal and > 0: no crossover
HoldFrames ==
    {d \in CloseFrames : d.len = LongWindow + 2 /\ d.prev = d.last /\ d.last > 0}

InitHold ==
    /\ params \in ParamChoices
    /\ long_entries \in SeqsUpTo(HoldEntries, MaxEntries)
    /\ short_entries \in SeqsUpTo(HoldEntries, MaxEntries)
    /\ Len(long_entries) + Len(short_entries) <= MaxEntries
    /\ completed_long_trades = 0
    /\ completed_short_trades = 0
    /\ pc = "idle"
    /\ df \in HoldFrames
    /\ account_value = 0
    /\ cash = 0
    /\ actions = <<>>
    /\ pre = EmptyState
    /\ snapshot = <<>>
    /\ restored = <<>>
    /\ trades = <<>>
    /\ pos_side = "long"
    /\ inferred = FALSE

\* one call of process_bar on the series held, with equity 1000 and cash 150
HoldBar ==
    /\ pc = "idle"
    /\ \E out \in {process_bar(Self, params, df, 1000, 150)} :
           /\ long_entries' = out.state.long_entries
           /\ short_entries' = out.state.short_entries
           /\ completed_long_trades' = out.state.completed_long_trades
           /\ completed_short_trades' = out.state.completed_short_trades
           /\ actions' = out.actions
    /\ pre' = Self
    /\ account_value' = 1000
    /\ cash' = 150
    /\ pc' = "returned"
    /\ UNCHANGED <<params, df, snapshot, restored>>
    /\ UNCHANGED tradeVars

\* the caller is done with the returned list; the next call gets the same series
HoldReturn ==
    /\ pc = "returned"
    /\ pc' = "idle"
    /\ account_value' = 0
    /\ cash' = 0
    /\ actions' = <<>>
    /\ pre' = EmptyState
    /\ UNCHANGED <<params, df, long_entries, short_entries, completed_long_trades,
                   completed_short_trades, snapshot, restored>>
    /\ UNCHANGED tradeVars

NextHold == HoldBar \/ HoldReturn

\* a call is made and returns
Calls == pc = "idle" /\ pc' = "returned"

\* the caller never stops calling: an idle caller makes its next call (which
\* is a HoldBar step, process_bar being defined on every state) and a call
\* that returned is followed up
SpecHold ==
    InitHold /\ [][NextHold]_vars /\ WF_pc(Calls) /\ WF_vars(HoldReturn)

\* the actions a ledger can still be the subject of: tier-1 and one closing
\* action for an entry that has not passed tier-1, one closing action for one
\* that has
RECURSIVE Rank(_)
Rank(entries) ==
    IF entries = <<>> THEN 0
    ELSE Rank(SubSeq(entries, 1, Len(entries) - 1))
             + (IF entries[Len(entries)].tp1_done THEN 1 ELSE 2)

RankOf(state) == Rank(state.long_entries) + Rank(state.short_entries)

\* a call that returns an exit action uses up at least one of them, a call
\* that returns nothing none, and only an open adds any (two)
RankStep ==
    Called =>
        /\ Len(actions) <= 1
        /\ actions = <<>> => Unchanged
        /\ (actions # <<>> /\ actions[1].op \in ExitOps) => RankOf(Self) < RankOf(pre)
        /\ (actions # <<>> /\ actions[1].op \in OpenOps) => RankOf(Self) = RankOf(pre) + 2
        /\ RankOf(pre) <= 2 * (Len(pre.long_entries) + Len(pre.short_entries))

\* an entry held is due for tier-1, stop-loss or tier-2 at the close held
HeldDue ==
    \/ \E k \in 1..Len(long_entries) : ExitDue(long_entries[k], "long")
    \/ \E k \in 1..Len(short_entries) : ExitDue(short_entries[k], "short")

Quiet == (Called => actions = <<>>) /\ ~HeldDue

\* C19: an entry is the subject of at most one tier-1 action (while tp1_done
\* is false) and one closing action (which removes it), so each call that
\* returns an exit action lowers the count of actions the ledger can still
\* get, which is at most 2N for N entries; and while the close stays where it
\* is with no crossover, the calls end up returning nothing for ever, no entry
\* of the ledger, old or new, being still due at that close.
C19_ExitsRunOut == []RankStep /\ <>[]Quiet

\* a call that found nothing left to do after two earlier calls had each
\* closed a short entry by tier-2, the older one after the newer one
C19_Witness ==
    /\ Called
    /\ df.last = 82 /\ df.prev = 82
    /\ actions = <<>>
    /\ completed_short_trades = 2
    /\ long_entries = <<>> /\ short_entries = <<>>

-----------------------------------------------------------------------------
(* live_btc_real.py: _infer_tp1_done_from_trades.                          *)

\* bound of the model: trades handed to one call
MaxTrades == 4

\* Python's None where a trade lacks its timestamp or its amount, and what
\* _get_pos_side_from_trade returns for a trade of no side
None == -1

\* the contract size of the swap market, 0.01 BTC
contract_size == <<1, 100>>

OtherSide(ps) == IF ps = "long" THEN "short" ELSE "long"

Trade(posSide, timestamp, side, amount) ==
    [posSide |-> posSide, timestamp |-> timestamp, side |-> side, amount |-> amount]

\* the trades fetch_my_trades may report to a call about the side ps: buys
\* and sells of 1 or 2 contracts on that side at the time 1 or 2, a trade of
\* the other side, a trade without timestamp and a trade without amount
TradeChoices(ps) ==
    {Trade(ps, ts, sd, am) : ts \in {1, 2}, sd \in {"buy", "sell"}, am \in {1, 2}}
    \cup {Trade(OtherSide(ps), 1, "buy", 2), Trade(ps, None, "sell", 2),
          Trade(ps, 2, "sell", None)}

_get_pos_side_from_trade(trade) ==
    IF trade.posSide \in {"long", "short"} THEN trade.posSide ELSE "None"

\* "relevant": the trades of the side that carry a timestamp, in their order
RECURSIVE relevant_of(_, _)
relevant_of(ts, ps) ==
    IF ts = <<>> THEN <<>>
    ELSE LET t == ts[Len(ts)]
             before == relevant_of(SubSeq(ts, 1, Len(ts) - 1), ps)
         IN  IF _get_pos_side_from_trade(t) # ps \/ t.timestamp = None
             THEN before ELSE Append(before, t)

\* relevant.sort(key=lambda x: x["timestamp"]): a stable sort
RECURSIVE sort_by_timestamp(_)
sort_by_timestamp(ts) ==
    IF ts = <<>> THEN <<>>
    ELSE LET t == ts[Len(ts)]
             sorted == sort_by_timestamp(SubSeq(ts, 1, Len(ts) - 1))
             k == Cardinality({i \in 1..Len(sorted) : sorted[i].timestamp <= t.timestamp})
         IN  SubSeq(sorted, 1, k) \o <<t>> \o SubSeq(sorted, k + 1, Len(sorted))

\* float(t.get("amount", 0) or 0) * contract_size
btc_of(t, cs) == RMul(Q(IF t.amount = None THEN 0 ELSE t.amount), cs)

\* the signed quantity of a trade for the side ps
delta_of(t, cs, ps) ==
    IF ps = "long"
    THEN (IF t.side = "buy" THEN btc_of(t, cs) ELSE RSub(Q(0), btc_of(t, cs)))
    ELSE (IF t.side = "sell" THEN btc_of(t, cs) ELSE RSub(Q(0), btc_of(t, cs)))

\* the loop body without its "if net <= 0: reduced_since_open = False"
replay_step_no_reset(st, t, cs, ps) ==
    IF FLe(btc_of(t, cs), Q(0)) THEN st
    ELSE LET delta == delta_of(t, cs, ps)
             prev_net == st.net
             net == RAdd(st.net, delta)
         IN  IF FLe(prev_net, Q(0)) /\ FGt(net, Q(0))
                 THEN [net |-> net, reduced_since_open |-> FALSE]
             ELSE IF FGt(prev_net, Q(0)) /\ FLt(delta, Q(0))
                 THEN [net |-> net, reduced_since_open |-> TRUE]
             ELSE [net |-> net, reduced_since_open |-> st.reduced_since_open]

\* one turn of "for t in relevant" on the loop state st
replay_step(st, t, cs, ps) ==
    IF FLe(btc_of(t, cs), Q(0)) THEN st
    ELSE LET delta == delta_of(t, cs, ps)
             prev_net == st.net
             net == RAdd(st.net, delta)
         IN  IF FLe(prev_net, Q(0)) /\ FGt(net, Q(0))
                 THEN [net |-> net, reduced_since_open |-> FALSE]
             ELSE LET reduced == IF FGt(prev_net, Q(0)) /\ FLt(delta, Q(0))
                                 THEN TRUE ELSE st.reduced_since_open
                  IN  [net |-> net,
                       reduced_since_open |-> IF FLe(net, Q(0)) THEN FALSE ELSE reduced]

\* the loop over relevant, from net = 0.0 and reduced_since_open = False
RECURSIVE replay(_, _, _)
replay(rel, cs, ps) ==
    IF rel = <<>> THEN [net |-> Q(0), reduced_since_open |-> FALSE]
    ELSE replay_step(replay(SubSeq(rel, 1, Len(rel) - 1), cs, ps), rel[Len(rel)], cs, ps)

_infer_tp1_done_from_trades(ts, cs, ps) ==
    replay(sort_by_timestamp(relevant_of(ts, ps)), cs, ps).reduced_since_open

InitTrades ==
    /\ params = DefaultParams
    /\ long_entries = <<>>
    /\ short_entries = <<>>
    /\ completed_long_trades = 0
    /\ completed_short_trades = 0
    /\ pc = "trades"
    /\ df = NoFrame
    /\ account_value = 0
    /\ cash = 0
    /\ actions = <<>>
    /\ pre = EmptyState
    /\ snapshot = <<>>
    /\ restored = <<>>
    /\ pos_side \in {"long", "short"}
    /\ trades \in SeqsUpTo(TradeChoices(pos_side), MaxTrades)
    /\ inferred = FALSE

\* tp1_done = _infer_tp1_done_from_trades(trades, contract_size, pos_side)
InferTp1Done ==
    /\ pc = "trades"
    /\ inferred' = _infer_tp1_done_from_trades(trades, contract_size, pos_side)
    /\ pc' = "inferred"
    /\ UNCHANGED <<params, long_entries, short_entries, completed_long_trades,
                   completed_short_trades, df, account_value, cash, actions, pre,
                   snapshot, restored, trades, pos_side>>

NextTrades == InferTp1Done

SpecTrades == InitTrades /\ [][NextTrades]_vars

\* the trades of the call that are replayed: those of the side asked for that
\* carry a timestamp (positions in trades)
Own == {i \in 1..Len(trades) :
           trades[i].posSide = pos_side /\ trades[i].timestamp # None}

\* trade i is replayed before trade j: earlier timestamp, and for equal
\* timestamps the order they were handed over in
Before(i, j) ==
    \/ trades[i].timestamp < trades[j].timestamp
    \/ trades[i].timestamp = trades[j].timestamp /\ i < j

\* contracts trade i adds to the position of the side (< 0: it reduces it)
Signed(i) ==
    LET am == IF trades[i].amount = None THEN 0 ELSE trades[i].amount
        adds == IF pos_side = "long" THEN "buy" ELSE "sell"
    IN  IF trades[i].side = adds THEN am ELSE -am

RECURSIVE SumSigned(_)
SumSigned(S) ==
    IF S = {} THEN 0
    ELSE LET i == CHOOSE x \in S : TRUE IN Signed(i) + SumSigned(S \ {i})

\* the net quantity, in contracts, after and before trade i, and at the end
NetAfter(i) == SumSigned({j \in Own : j = i \/ Before(j, i)})
NetBefore(i) == SumSigned({j \in Own : Before(j, i)})
FinalNet == SumSigned(Own)

\* trade i took the net quantity from <= 0 to > 0
Opens(i) == NetBefore(i) <= 0 /\ NetAfter(i) > 0

\* a reducing trade came after the most recent trade that opened from flat
ReducedSinceOpen ==
    \E o \in Own :
        /\ Opens(o)
        /\ \A j \in Own : Opens(j) => (j = o \/ Before(j, o))
        /\ \E r \in Own : Before(o, r) /\ Signed(r) < 0

\* C20: _infer_tp1_done_from_trades returns true exactly when the net
\* quantity of the side after its last trade is > 0 and a reducing trade came
\* after the most recent trade that took the net quantity from <= 0 to > 0;
\* it returns false when the position is flat at the end and when it has only
\* been increased since it was last opened from flat.
C20_ReducedSinceOpen ==
    pc = "inferred" =>
        /\ inferred <=> (FinalNet > 0 /\ ReducedSinceOpen)
        /\ FinalNet <= 0 => ~inferred
        /\ (FinalNet > 0 /\ ~ReducedSinceOpen) => ~inferred

\* four trades handed over out of time order: in time order the position is
\* opened, closed to flat, opened again and reduced by a part; true is
\* returned
C20_Witness ==
    /\ pc = "inferred"
    /\ inferred
    /\ Len(trades) = 4 /\ Own = 1..4
    /\ trades[2].timestamp > trades[3].timestamp
    /\ \E i, j \in Own : Before(i, j) /\ NetAfter(i) = 0 /\ Opens(j)
    /\ FinalNet = 1

-----------------------------------------------------------------------------
(* Saving and restoring a StrategyState.                                   *)

\* the entries a saved state may hold
SavedEntries ==
    {Entry(Q(100), <<3, 2>>, FALSE), Entry(Q(100), <<3, 20>>, TRUE),
     Entry(Q(122), Q(0), TRUE)}

InitJson ==
    /\ params \in ParamChoices
    /\ long_entries \in SeqsUpTo(SavedEntries, MaxEntries)
    /\ short_entries \in SeqsUpTo(SavedEntries, MaxEntries)
    /\ completed_long_trades \in 0..MaxCompleted
    /\ completed_short_trades \in 0..MaxCompleted
    /\ pc = "state"
    /\ df = NoFrame
    /\ account_value = 0
    /\ cash = 0
    /\ actions = <<>>
    /\ pre = EmptyState
    /\ snapshot = <<>>
    /\ restored = <<>>
    /\ trades = <<>>
    /\ pos_side = "long"
    /\ inferred = FALSE

\* snapshot = state.to_json()
ToJson ==
    /\ pc = "state"
    /\ snapshot' = to_json(FullState(params, long_entries, short_entries,
                                     completed_long_trades, completed_short_trades))
    /\ pc' = "saved"
    /\ UNCHANGED <<params, long_entries, short_entries, completed_long_trades,
                   completed_short_trades, df, account_value, cash, actions, pre,
                   restored>>
    /\ UNCHANGED tradeVars

\* the object obj without its key
Lacking(obj, key) == [k \in DOMAIN obj \ {key} |-> obj[k]]

\* the list of entry objects with the field key of its entry i removed
EntryLacking(list, i, key) ==
    [k \in 1..Len(list) |-> IF k = i THEN Lacking(list[k], key) ELSE list[k]]

\* the snapshots that lack one thing of snap: a top-level key, a field of
\* params, or a field of one entry
MalformedOf(snap) ==
    {Lacking(snap, key) : key \in DOMAIN snap}
    \cup {[snap EXCEPT !.params = Lacking(@, f)] : f \in DOMAIN snap.params}
    \cup {[snap EXCEPT !.long_entries = EntryLacking(@, i, f)] :
              i \in 1..Len(snap.long_entries), f \in {"price", "size", "tp1_done"}}
    \cup {[snap EXCEPT !.short_entries = EntryLacking(@, i, f)] :
              i \in 1..Len(snap.short_entries), f \in {"price", "size", "tp1_done"}}

\* the saved text loses one key before it is read back
Damage ==
    /\ pc = "saved"
    /\ snapshot' \in MalformedOf(snapshot)
    /\ pc' = "malformed"
    /\ UNCHANGED <<params, long_entries, short_entries, completed_long_trades,
                   completed_short_trades, df, account_value, cash, actions, pre,
                   restored>>
    /\ UNCHANGED tradeVars

\* restored = StrategyState.from_json(snapshot)
FromJson ==
    /\ pc \in {"saved", "malformed"}
    /\ restored' = from_json(snapshot)
    /\ pc' = IF pc = "saved" THEN "loaded" ELSE "loaded_malformed"
    /\ UNCHANGED <<params, long_entries, short_entries, completed_long_trades,
                   completed_short_trades, df, account_value, cash, actions, pre,
                   snapshot>>
    /\ UNCHANGED tradeVars

NextJson == ToJson \/ Damage \/ FromJson

SpecJson == InitJson /\ [][NextJson]_vars

\* C7: from_json(to_json(s)) equals s field for field: params, the entries of
\* both lists in order with price, size and tp1_done, and both counters.
C7_RoundTrip ==
    pc = "loaded" =>
        /\ ~IsError(restored)
        /\ restored.params = params
        /\ Len(restored.long_entries) = Len(long_entries)
        /\ \A i \in 1..Len(long_entries) :
              /\ restored.long_entries[i].price = long_entries[i].price
              /\ restored.long_entries[i].size = long_entries[i].size
              /\ restored.long_entries[i].tp1_done = long_entries[i].tp1_done
        /\ Len(restored.short_entries) = Len(short_entries)
        /\ \A i \in 1..Len(short_entries) :
              /\ restored.short_entries[i].price = short_entries[i].price
              /\ restored.short_entries[i].size = short_entries[i].size
              /\ restored.short_entries[i].tp1_done = short_entries[i].tp1_done
        /\ restored.completed_long_trades = completed_long_trades
        /\ restored.completed_short_trades = completed_short_trades

\* a restored state with params other than the defaults, two long entries of
\* which only the first has passed tier-1, a short entry and a counter above 0
C7_Witness ==
    /\ pc = "loaded"
    /\ params # DefaultParams
    /\ Len(long_entries) = 2
    /\ long_entries[1].tp1_done /\ ~long_entries[2].tp1_done
    /\ Len(short_entries) = 1 /\ short_entries[1].tp1_done
    /\ completed_long_trades = 1
    /\ ~IsError(restored)
    /\ restored.long_entries[1].tp1_done
    /\ ~restored.long_entries[2].tp1_done


\* C15 as stated: from_json of a snapshot that lacks params or one of its
\* fields, a list of entries, a counter, or the price, size or tp1_done of an
\* entry ends in an error and returns no state.
C15_MalformedIsError ==
    pc = "loaded_malformed" => IsError(restored)

\* what from_json does of them: an error only where an entry lacks its price
\* or its size
C15_OnlyPriceAndSizeRequired ==
    pc = "loaded_malformed" =>
        (IsError(restored) <=>
            \/ \E i \in 1..Len(Get(snapshot, "long_entries", <<>>)) :
                  ~({"price", "size"} \subseteq DOMAIN snapshot.long_entries[i])
            \/ \E i \in 1..Len(Get(snapshot, "short_entries", <<>>)) :
                  ~({"price", "size"} \subseteq DOMAIN snapshot.short_entries[i]))

====
